---- MODULE Spec2Model ----
(***************************************************************************)
(* Model of make_docker_images.py: the name validator, the version-number  *)
(* codec, the MPI-spec parser, the DockerClass record, the functions that  *)
(* write recipe and batch files, and main with its two target loops.       *)
(*                                                                         *)
(* A Python string is a sequence of one-character strings, so that slices, *)
(* searches and digit runs are computed character by character.  A recipe  *)
(* or batch text is a sequence of pieces whose concatenation is the text:  *)
(* a piece is either one character of a substituted parameter or a fixed   *)
(* template literal of the script.                                         *)
(***************************************************************************)
EXTENDS Integers, Sequences, FiniteSets, TLC

\* ------------------------------------------------------------------------
\* Bounds of the model

\* longest tail appended to a prefix to form an input string of the codec
MaxTail == 7

\* most I/O events (files written, subprocesses started, lines printed) of a
\* behaviour of the DockerClass specification
MaxEvents == 3

\* most targets completed in one run of the script
MaxTargets == 2

\* ------------------------------------------------------------------------
\* Python values and call outcomes

PyNone == [t |-> "NoneType"]
PyStr(s) == [t |-> "str", v |-> s]
PyList(l) == [t |-> "list", v |-> l]
PyBool(b) == [t |-> "bool", v |-> b]
PyTuple(a, b) == [t |-> "tuple", v |-> <<a, b>>]

Returned(v) == [exc |-> "none", val |-> v]
Raised(e) == [exc |-> e, val |-> PyNone]

\* s[a:b] of Python for 0 <= a, 0 <= b
Slice(s, a, b) ==
    LET hi == IF b < Len(s) THEN b ELSE Len(s)
    IN  IF a >= hi THEN <<>> ELSE SubSeq(s, a + 1, hi)

\* s[a:] of Python for 0 <= a
SliceFrom(s, a) == Slice(s, a, Len(s))

\* ------------------------------------------------------------------------
\* Characters

Digit == {"0", "1", "2", "3", "4", "5", "6", "7", "8", "9"}

DigitVal(c) ==
    CASE c = "0" -> 0 [] c = "1" -> 1 [] c = "2" -> 2 [] c = "3" -> 3
      [] c = "4" -> 4 [] c = "5" -> 5 [] c = "6" -> 6 [] c = "7" -> 7
      [] c = "8" -> 8 [] c = "9" -> 9

DigitChar(d) ==
    CASE d = 0 -> "0" [] d = 1 -> "1" [] d = 2 -> "2" [] d = 3 -> "3"
      [] d = 4 -> "4" [] d = 5 -> "5" [] d = 6 -> "6" [] d = 7 -> "7"
      [] d = 8 -> "8" [] d = 9 -> "9"

\* forbidden_chars = list("?!@#$%^&* ;<>?|\"\a\b\f\n\r\t\v"); the control
\* characters \a, \b and \v are written with a doubled backslash
forbidden_chars ==
    <<"?", "!", "@", "#", "$", "%", "^", "&", "*", " ", ";", "<", ">", "?",
      "|", "\"", "\\a", "\\b", "\f", "\n", "\r", "\t", "\\v">>

\* str.find(c) for a one-character c: the first index (from 0) or -1
find(s, c) ==
    IF \E i \in 1..Len(s) : s[i] = c
    THEN (CHOOSE i \in 1..Len(s) : s[i] = c /\ \A j \in 1..(i - 1) : s[j] # c) - 1
    ELSE -1

\* ------------------------------------------------------------------------
\* is_proper_name

is_proper_name_no_empty_check(name) ==
    IF name.t # "str" THEN Raised("TypeError")
    ELSE IF \E i \in 1..Len(forbidden_chars) : find(name.v, forbidden_chars[i]) >= 0
         THEN Returned(PyBool(FALSE))
    ELSE Returned(PyBool(TRUE))

is_proper_name(name) ==
    IF name.t # "str" THEN Raised("TypeError")
    ELSE IF name.v = <<>> THEN Returned(PyBool(FALSE))
    ELSE IF \E i \in 1..Len(forbidden_chars) : find(name.v, forbidden_chars[i]) >= 0
         THEN Returned(PyBool(FALSE))
    ELSE Returned(PyBool(TRUE))

\* ------------------------------------------------------------------------
\* Version-number codec

\* int(x) for a string of decimal digits
RECURSIVE py_int_acc(_, _)
py_int_acc(x, acc) ==
    IF x = <<>> THEN acc ELSE py_int_acc(Tail(x), acc * 10 + DigitVal(Head(x)))

py_int(x) == py_int_acc(x, 0)

\* str(n) for a non-negative integer
RECURSIVE py_str(_)
py_str(n) ==
    IF n < 10 THEN <<DigitChar(n)>> ELSE py_str(n \div 10) \o <<DigitChar(n % 10)>>

\* length of the longest prefix of s made of digits
RECURSIVE digit_prefix_len(_)
digit_prefix_len(s) ==
    IF s = <<>> \/ Head(s) \notin Digit THEN 0 ELSE 1 + digit_prefix_len(Tail(s))

\* re.findall(r'\d+', s): the leftmost-first greedy matches
RECURSIVE re_findall_digits(_)
re_findall_digits(s) ==
    IF s = <<>> THEN <<>>
    ELSE IF Head(s) \notin Digit THEN re_findall_digits(Tail(s))
    ELSE LET n == digit_prefix_len(s)
         IN  <<SubSeq(s, 1, n)>> \o re_findall_digits(SubSeq(s, n + 1, Len(s)))

split_version_number_at_least_three(input_ver) ==
    LET string_list == re_findall_digits(input_ver)
    IN  IF Len(string_list) >= 3
        THEN [i \in 1..Len(string_list) |-> py_int(string_list[i])]
        ELSE <<>>

split_version_number(input_ver) ==
    LET string_list == re_findall_digits(input_ver)
    IN  IF Len(string_list) = 3
        THEN [i \in 1..3 |-> py_int(string_list[i])]
        ELSE <<>>

compose_version_number_dashes(int_list) ==
    IF int_list.t = "list"
    THEN IF Len(int_list.v) = 3
         THEN py_str(int_list.v[1]) \o <<"-">> \o py_str(int_list.v[2]) \o <<"-">>
              \o py_str(int_list.v[3])
         ELSE <<>>
    ELSE <<>>

compose_version_number(int_list) ==
    IF int_list.t = "list"
    THEN IF Len(int_list.v) = 3
         THEN py_str(int_list.v[1]) \o <<".">> \o py_str(int_list.v[2]) \o <<".">>
              \o py_str(int_list.v[3])
         ELSE <<>>
    ELSE <<>>

\* ------------------------------------------------------------------------
\* get_mpi_type_and_version

mpich == <<"m", "p", "i", "c", "h">>
openmpi == <<"o", "p", "e", "n", "m", "p", "i">>

get_mpi_type_and_version_suffix_at_name_end(mpi_name) ==
    IF mpi_name.t # "str" THEN Raised("TypeError")
    ELSE LET s == mpi_name.v
             length == Len(s)
         IN  IF length < 5 THEN Raised("ValueError")
             ELSE IF length = 5
                  THEN IF s = mpich THEN Returned(PyTuple(PyStr(mpich), PyNone))
                       ELSE Raised("ValueError")
             ELSE IF length = 6 THEN Raised("ValueError")
             ELSE IF length = 7
                  THEN IF s = openmpi THEN Returned(PyTuple(PyStr(openmpi), PyNone))
                       ELSE Raised("ValueError")
             ELSE IF Slice(s, 0, 5) = mpich
                  THEN LET int_ver == split_version_number(SliceFrom(s, 5))
                       IN  IF Len(int_ver) = 3
                           THEN Returned(PyTuple(PyStr(mpich), PyList(int_ver)))
                           ELSE Raised("ValueError")
             ELSE IF Slice(s, 0, 7) = openmpi
                  THEN LET int_ver == split_version_number(SliceFrom(s, 7))
                       IN  IF Len(int_ver) = 3
                           THEN Returned(PyTuple(PyStr(openmpi), PyList(int_ver)))
                           ELSE Raised("ValueError")
             ELSE Raised("ValueError")

get_mpi_type_and_version(mpi_name) ==
    IF mpi_name.t # "str" THEN Raised("TypeError")
    ELSE LET s == mpi_name.v
             length == Len(s)
         IN  IF length < 5 THEN Raised("ValueError")
             ELSE IF length = 5
                  THEN IF s = mpich THEN Returned(PyTuple(PyStr(mpich), PyNone))
                       ELSE Raised("ValueError")
             ELSE IF length = 6 THEN Raised("ValueError")
             ELSE IF length = 7
                  THEN IF s = openmpi THEN Returned(PyTuple(PyStr(openmpi), PyNone))
                       ELSE Raised("ValueError")
             ELSE IF Slice(s, 0, 5) = mpich
                  THEN LET int_ver == split_version_number(SliceFrom(s, 6))
                       IN  IF Len(int_ver) = 3
                           THEN Returned(PyTuple(PyStr(mpich), PyList(int_ver)))
                           ELSE Raised("ValueError")
             ELSE IF Slice(s, 0, 7) = openmpi
                  THEN LET int_ver == split_version_number(SliceFrom(s, 8))
                       IN  IF Len(int_ver) = 3
                           THEN Returned(PyTuple(PyStr(openmpi), PyList(int_ver)))
                           ELSE Raised("ValueError")
             ELSE Raised("ValueError")

\* ------------------------------------------------------------------------
\* Files and the outside world

\* The world a call acts on: fs maps the path of each file of the working
\* directory to its text; log is the sequence of I/O events so far (a file
\* opened for writing, a subprocess started, a line printed).
World(files, events) == [fs |-> files, log |-> events]

NoFiles == [q \in {} |-> <<>>]

\* open(path, "w") followed by file.write(text): the file is created or
\* truncated and holds text afterwards
open_w_write(w, path, text) ==
    World([q \in DOMAIN w.fs \cup {path} |-> IF q = path THEN text ELSE w.fs[q]],
          Append(w.log, [ev |-> "write", what |-> path]))

\* Path(path).is_file()
is_file(w, path) == path \in DOMAIN w.fs

\* subprocess.run(command, shell=True): the exit status is not examined
subprocess_run(w, command) ==
    World(w.fs, Append(w.log, [ev |-> "run", what |-> command]))

\* print(text)
print(w, text) == World(w.fs, Append(w.log, [ev |-> "print", what |-> text]))

\* what a call leaves: the record, the world and the call's outcome
Effect(self, w, out) == [self |-> self, w |-> w, out |-> out]

\* ------------------------------------------------------------------------
\* DockerClass

\* DockerClass(): the class attributes
DockerClass == [recipe_name |-> <<>>, image_name |-> <<>>, recipe |-> <<>>]

set_recipe_name(self, w, recipe_name) ==
    LET proper == is_proper_name(recipe_name)
    IN  IF proper.exc # "none" THEN Effect(self, w, proper)
        ELSE IF proper.val.v
             THEN Effect([self EXCEPT !.recipe_name = recipe_name.v], w, Returned(PyNone))
        ELSE Effect(self, w, Raised("ValueError"))

set_recipe(self, w, recipe) ==
    IF recipe.t = "str"
    THEN IF recipe.v # <<>>
         THEN Effect([self EXCEPT !.recipe = recipe.v], w, Returned(PyNone))
         ELSE Effect(self, w, Raised("ValueError"))
    ELSE Effect(self, w, Raised("TypeError"))

set_image_name(self, w, image_name) ==
    LET proper == is_proper_name(image_name)
    IN  IF proper.exc # "none" THEN Effect(self, w, proper)
        ELSE IF proper.val.v
             THEN Effect([self EXCEPT !.image_name = image_name.v], w, Returned(PyNone))
        ELSE Effect(self, w, Raised("ValueError"))

write_recipe_without_content_check(self, w) ==
    IF self.recipe_name = <<>> THEN Effect(self, w, Raised("ValueError"))
    ELSE Effect(self, open_w_write(w, self.recipe_name, self.recipe), Returned(PyNone))

write_recipe(self, w) ==
    IF self.recipe_name = <<>> THEN Effect(self, w, Raised("ValueError"))
    ELSE IF self.recipe = <<>> THEN Effect(self, w, Raised("ValueError"))
    ELSE Effect(self, open_w_write(w, self.recipe_name, self.recipe), Returned(PyNone))

get_build_command_names_swapped(self, w) ==
    IF self.recipe_name = <<>> THEN Effect(self, w, Raised("ValueError"))
    ELSE IF self.image_name = <<>> THEN Effect(self, w, Raised("ValueError"))
    ELSE Effect(self, w, Returned(PyStr(
             <<"docker build --no-cache --pull -t ">> \o self.recipe_name
                 \o <<" -f ">> \o self.image_name \o <<" .">>)))

get_build_command(self, w) ==
    IF self.recipe_name = <<>> THEN Effect(self, w, Raised("ValueError"))
    ELSE IF self.image_name = <<>> THEN Effect(self, w, Raised("ValueError"))
    ELSE Effect(self, w, Returned(PyStr(
             <<"docker build --no-cache --pull -t ">> \o self.image_name
                 \o <<" -f ">> \o self.recipe_name \o <<" .">>)))

build_image_inverted_file_check(self, w) ==
    LET build_command == get_build_command(self, w)
    IN  IF build_command.out.exc # "none" THEN build_command
        ELSE IF self.recipe_name = <<>> THEN Effect(self, w, Raised("ValueError"))
        ELSE IF ~is_file(w, self.recipe_name)
             THEN Effect(self, subprocess_run(w, build_command.out.val.v), Returned(PyNone))
        ELSE Effect(self, w, Raised("FileExistsError"))

build_image(self, w) ==
    LET build_command == get_build_command(self, w)
    IN  IF build_command.out.exc # "none" THEN build_command
        ELSE IF self.recipe_name = <<>> THEN Effect(self, w, Raised("ValueError"))
        ELSE IF is_file(w, self.recipe_name)
             THEN Effect(self, subprocess_run(w, build_command.out.val.v), Returned(PyNone))
        ELSE Effect(self, w, Raised("FileExistsError"))

\* ------------------------------------------------------------------------
\* Settings and names of the script, as strings of characters

generic == <<"g", "e", "n", "e", "r", "i", "c">>
galaxy == <<"g", "a", "l", "a", "x", "y">>
develop == <<"d", "e", "v", "e", "l", "o", "p">>
master == <<"m", "a", "s", "t", "e", "r">>
yandabase == <<"y", "a", "n", "d", "a", "b", "a", "s", "e">>
yandasoft == <<"y", "a", "n", "d", "a", "s", "o", "f", "t">>
askapsoft == <<"a", "s", "k", "a", "p", "s", "o", "f", "t">>

docker_account == <<"c", "s", "i", "r", "o", "c", "a", "s", "s">>

\* name_prepend = docker_account + "/" and name_append = "" of main
name_prepend == docker_account \o <<"/">>
name_append == <<>>

\* os.cpu_count() of the machine the script runs on
nproc_available == 4

nproc == IF nproc_available > 1 THEN nproc_available - 1 ELSE 1

\* header; __file__ is the path the script was started with
header == <<"# This file is automatically created by ", "make_docker_images.py", "\n">>

cmake_ver == <<"3.20.3">>
casacore_ver == <<"3.3.0">>
cmake_cxx_compiler == <<"-DCMAKE_CXX_COMPILER=mpicxx">>
MPI_COMPILE_FLAGS == <<"-I/usr/local/include -pthread">>

library_list ==
    <<"libboost-dev",
      "libboost-filesystem-dev",
      "libboost-program-options-dev",
      "libboost-python-dev",
      "libboost-regex-dev",
      "libboost-signals-dev",
      "libboost-system-dev",
      "libboost-thread-dev",
      "libcfitsio-dev",
      "libcppunit-dev",
      "libcurl4-openssl-dev",
      "libczmq-dev",
      "libfftw3-dev",
      "libffi-dev",
      "libgsl-dev",
      "libhdf5-serial-dev",
      "liblapacke-dev",
      "liblog4cxx-dev",
      "libncurses5-dev",
      "libopenblas-dev",
      "libpython2.7-dev",
      "libpython3-dev",
      "libreadline-dev",
      "libssl-dev",
      "libxerces-c-dev",
      "libzmq3-dev",
      "wcslib-dev">>

tool_list ==
    <<"autoconf",
      "automake",
      "bison",
      "docker",
      "flex",
      "g++",
      "gcovr",
      "gdb",
      "gfortran",
      "git",
      "libtool",
      "m4",
      "make",
      "patch",
      "python-numpy",
      "python-pip",
      "python-scipy",
      "subversion",
      "tzdata",
      "valgrind",
      "vim",
      "wget",
      "xsltproc",
      "zeroc-ice-all-dev",
      "zeroc-ice-all-runtime">>

\* for item in list: text += " \\\n" + "        " + item
RECURSIVE install_items(_)
install_items(list) ==
    IF list = <<>> THEN <<>>
    ELSE <<" \\\n", "        ", Head(list)>> \o install_items(Tail(list))

\* ------------------------------------------------------------------------
\* make_yandabase

\* the recipe after the base part: cmake, measures, casacore and casarest
yandabase_recipe ==
    <<"ENV DEBIAN_FRONTEND=\"noninteractive\"\n",
      "RUN apt-get update -q \\\n",
      "    && apt-get upgrade -y \\\n",
      "    && apt-get install -y --no-install-recommends ">>
    \o install_items(library_list \o tool_list)
    \o <<"\\\n", "    && rm -rf /var/lib/apt/lists/* \n">>
    \o <<"# Build cmake\n",
         "RUN mkdir /usr/local/share/cmake\n",
         "WORKDIR /usr/local/share/cmake\n",
         "RUN wget https://github.com/Kitware/CMake/releases/download/v">>
    \o cmake_ver \o <<"/", "cmake-">> \o cmake_ver \o <<".tar.gz", " \\\n",
         "    && tar -zxf ", "cmake-">> \o cmake_ver \o <<".tar.gz", " \\\n",
         "    && rm ", "cmake-">> \o cmake_ver \o <<".tar.gz", "\n",
         "WORKDIR /usr/local/share/cmake/cmake-">> \o cmake_ver \o <<"\n",
         "RUN ./bootstrap --system-curl -- -DCMAKE_BUILD_TYPE:STRING=Release \\\n",
         "    && make \\\n",
         "    && make install\\\n",
         "    && rm -rf * \n",
         "# Build the latest measures\n",
         "RUN mkdir /usr/local/share/casacore \\\n",
         "    && mkdir /usr/local/share/casacore/data\n",
         "WORKDIR /usr/local/share/casacore/data\n",
         "RUN wget ftp://ftp.astron.nl/outgoing/Measures/WSRT_Measures.ztar \\\n",
         "    && mv WSRT_Measures.ztar WSRT_Measures.tar.gz \\\n",
         "    && tar -zxf WSRT_Measures.tar.gz \\\n",
         "    && rm WSRT_Measures.tar.gz \\\n",
         "    && mkdir /var/lib/jenkins \\\n",
         "    && mkdir /var/lib/jenkins/workspace \n",
         "# Build the latest casacore\n",
         "WORKDIR /usr/local/share/casacore\n",
         "RUN wget https://github.com/casacore/casacore/archive/v">>
    \o casacore_ver \o <<".tar.gz \\\n", "    && tar -xzf v">>
    \o casacore_ver \o <<".tar.gz\\\n", "    && rm v">>
    \o casacore_ver \o <<".tar.gz\n", "WORKDIR /usr/local/share/casacore/casacore-">>
    \o casacore_ver \o <<"\n",
         "RUN mkdir build\n",
         "WORKDIR build\n",
         "RUN cmake ">>
    \o cmake_cxx_compiler
    \o <<" -DUSE_FFTW3=ON -DDATA_DIR=/usr/local/share/casacore/data \\\n",
         "    -DUSE_OPENMP=ON -DUSE_HDF5=ON -DBUILD_PYTHON=ON -DUSE_THREADS=ON -DCMAKE_BUILD_TYPE=Release .. \\\n",
         "    && make -j">> \o py_str(nproc) \o <<" \\\n",
         "    && make install\n",
         "WORKDIR /usr/local/share/casacore/\n",
         "RUN wget https://github.com/steve-ord/casarest/tarball/078f94e \\\n",
         "    && tar -xzf 078f94e \\\n",
         "    && rm 078f94e\n",
         "WORKDIR steve-ord-casarest-078f94e\n",
         "RUN mkdir build\n",
         "WORKDIR build\n",
         "RUN cmake ">>
    \o cmake_cxx_compiler
    \o <<" -DCMAKE_BUILD_TYPE=Release .. \\\n",
         "    && make -j">> \o py_str(nproc) \o <<" \\\n",
         "    && make install \n",
         "WORKDIR /usr/local/share/casacore\n",
         "RUN rm -rf casacore \\\n",
         "    && rm -rf steve-ord-casarest-078f94e \n">>

\* docker_target.set_recipe(recipe); docker_target.write_recipe(); then
\* build_image() if execute, else print(get_build_command()); a raise ends
\* the sequence
write_and_build_whatever_the_flag(docker_target0, w0, recipe, execute) ==
    LET set == set_recipe(docker_target0, w0, PyStr(recipe))
    IN  IF set.out.exc # "none" THEN set
        ELSE
        LET written == write_recipe(set.self, set.w)
        IN  IF written.out.exc # "none" THEN written
            ELSE IF TRUE THEN build_image(written.self, written.w)
            ELSE LET command == get_build_command(written.self, written.w)
                 IN  IF command.out.exc # "none" THEN command
                     ELSE Effect(written.self, print(written.w, command.out.val.v),
                                 Returned(PyNone))

write_and_build(docker_target0, w0, recipe, execute) ==
    LET set == set_recipe(docker_target0, w0, PyStr(recipe))
    IN  IF set.out.exc # "none" THEN set
        ELSE
        LET written == write_recipe(set.self, set.w)
        IN  IF written.out.exc # "none" THEN written
            ELSE IF execute THEN build_image(written.self, written.w)
            ELSE LET command == get_build_command(written.self, written.w)
                 IN  IF command.out.exc # "none" THEN command
                     ELSE Effect(written.self, print(written.w, command.out.val.v),
                                 Returned(PyNone))

\* docker_target.set_recipe_name(recipe_name);
\* docker_target.set_image_name(image_name)
set_names(docker_target0, w0, recipe_name, image_name) ==
    LET named == set_recipe_name(docker_target0, w0, PyStr(recipe_name))
    IN  IF named.out.exc # "none" THEN named
        ELSE set_image_name(named.self, named.w, PyStr(image_name))

\* the statements of a builder from the naming on: the two names are set,
\* then the recipe is set, written and built
name_write_build(w0, recipe_name, image_name, recipe, execute) ==
    LET named == set_names(DockerClass, w0, recipe_name, image_name)
    IN  IF named.out.exc # "none" THEN named
        ELSE write_and_build(named.self, named.w, recipe, execute)

make_yandabase_galaxy_on_generic_base(machine, mpi, prepend, append, execute, w0) ==
    IF machine = PyStr(generic)
    THEN IF mpi.t # "str" THEN Effect(DockerClass, w0, Raised("TypeError"))
         ELSE LET base_part == <<"FROM csirocass/base:">> \o mpi.v \o <<" AS base_image \n">>
              IN  name_write_build(w0,
                                 <<".", "g", "i", "t", "l", "a", "b", "-", "d", "o", "c", "k", "e", "r", "-", "y", "a", "n", "d", "a", "b", "a", "s", "e", "-">> \o mpi.v,
                                 prepend \o <<"y", "a", "n", "d", "a", "b", "a", "s", "e", ":">> \o mpi.v \o append,
                                 header \o base_part \o yandabase_recipe, execute)
    ELSE IF machine = PyStr(galaxy)
    THEN LET base_part == <<"FROM csirocass/base:">> \o machine.v \o <<" AS base_image \n">>
         IN  name_write_build(w0,
                            <<".", "g", "i", "t", "l", "a", "b", "-", "d", "o", "c", "k", "e", "r", "-", "y", "a", "n", "d", "a", "b", "a", "s", "e", "-">> \o machine.v,
                            prepend \o <<"y", "a", "n", "d", "a", "b", "a", "s", "e", ":">> \o machine.v \o append,
                                 header \o base_part \o yandabase_recipe, execute)
    ELSE Effect(DockerClass, w0, Raised("ValueError"))

make_yandabase(machine, mpi, prepend, append, execute, w0) ==
    IF machine = PyStr(generic)
    THEN IF mpi.t # "str" THEN Effect(DockerClass, w0, Raised("TypeError"))
         ELSE LET base_part == <<"FROM csirocass/base:">> \o mpi.v \o <<" AS base_image \n">>
              IN  name_write_build(w0,
                                 <<".", "g", "i", "t", "l", "a", "b", "-", "d", "o", "c", "k", "e", "r", "-", "y", "a", "n", "d", "a", "b", "a", "s", "e", "-">> \o mpi.v,
                                 prepend \o <<"y", "a", "n", "d", "a", "b", "a", "s", "e", ":">> \o mpi.v \o append,
                                 header \o base_part \o yandabase_recipe, execute)
    ELSE IF machine = PyStr(galaxy)
    THEN LET base_part == <<"FROM pawsey/mpich-base:3.1.4_ubuntu18.04 AS ", "base_image\n">>
         IN  name_write_build(w0,
                            <<".", "g", "i", "t", "l", "a", "b", "-", "d", "o", "c", "k", "e", "r", "-", "y", "a", "n", "d", "a", "b", "a", "s", "e", "-">> \o machine.v,
                            prepend \o <<"y", "a", "n", "d", "a", "b", "a", "s", "e", ":">> \o machine.v \o append,
                                 header \o base_part \o yandabase_recipe, execute)
    ELSE Effect(DockerClass, w0, Raised("ValueError"))

\* ------------------------------------------------------------------------
\* make_big_yandasoft_recipe and make_small_yandasoft_recipe

\* base_image is a text; image and git_branch are strings of characters
make_big_yandasoft_recipe_workaround_unless_develop(base_image, image, git_branch) ==
    LET cmake_cxx_flags ==
            <<"-DCMAKE_CXX_FLAGS=\"">> \o MPI_COMPILE_FLAGS
                \o <<"\" -DCMAKE_BUILD_TYPE=Release -DENABLE_OPENMP=YES">>
        recipe(cmake_build_flags) ==
            IF git_branch = develop
            THEN <<"# Build Yandasoft\n",
                   "FROM ">> \o base_image \o <<" AS build_image \n",
                   "WORKDIR /home\n",
                   "RUN git clone https://gitlab.com/ASKAPSDP/all_yandasoft.git\n",
                   "WORKDIR /home/all_yandasoft\n",
                   "RUN ./git-do clone\n",
                   "RUN ./git-do checkout -b ">> \o git_branch \o <<"\n",
                   "# To fix version problem, use develop branch in askap-cmake \n",
                   "WORKDIR /home/all_yandasoft/askap-cmake \n",
                   "RUN git checkout develop \n",
                   "WORKDIR /home/all_yandasoft \n",
                   "RUN mkdir build\n",
                   "WORKDIR /home/all_yandasoft/build\n",
                   "RUN cmake ">> \o cmake_cxx_compiler \o <<" ">> \o cmake_cxx_flags
                     \o <<" ">> \o cmake_build_flags \o <<" .. \\\n",
                   "    && make -j">> \o py_str(nproc) \o <<" \\\n",
                   "    && make install\n">>
            ELSE \* Workaround for release version
                 <<"# Build Yandasoft\n",
                   "FROM ">> \o base_image \o <<" AS build_image \n",
                   "WORKDIR /home\n",
                   "RUN git clone https://gitlab.com/ASKAPSDP/all_yandasoft.git\n",
                   "WORKDIR /home/all_yandasoft\n",
                   "RUN ./git-do clone\n",
                   "# Workaround for versioning\n",
                   "RUN ./git-do checkout -b release/">> \o git_branch \o <<"\n",
                   "RUN ./git-do checkout -b ">> \o git_branch \o <<"\n",
                   "# To fix version problem, use develop branch in askap-cmake \n",
                   "WORKDIR /home/all_yandasoft/askap-cmake \n",
                   "RUN git checkout develop \n",
                   "WORKDIR /home/all_yandasoft \n",
                   "RUN mkdir build\n",
                   "WORKDIR /home/all_yandasoft/build\n",
                   "RUN cmake ">> \o cmake_cxx_compiler \o <<" ">> \o cmake_cxx_flags
                     \o <<" ">> \o cmake_build_flags \o <<" .. \\\n",
                   "    && make -j">> \o py_str(nproc) \o <<" \\\n",
                   "    && make install\n">>
    IN  IF image = yandasoft
        THEN Returned(PyStr(recipe(
                 <<"-DBUILD_ANALYSIS=OFF -DBUILD_PIPELINE=OFF -DBUILD_COMPONENTS=OFF ",
                   "-DBUILD_SERVICES=OFF">>)))
        ELSE IF image = askapsoft
        THEN Returned(PyStr(recipe(
                 <<"-DBUILD_ANALYSIS=ON -DBUILD_PIPELINE=ON -DBUILD_COMPONENTS=ON ",
                   "-DBUILD_SERVICES=OFF">>)))
        ELSE Raised("ValueError")

make_big_yandasoft_recipe(base_image, image, git_branch) ==
    LET cmake_cxx_flags ==
            <<"-DCMAKE_CXX_FLAGS=\"">> \o MPI_COMPILE_FLAGS
                \o <<"\" -DCMAKE_BUILD_TYPE=Release -DENABLE_OPENMP=YES">>
        recipe(cmake_build_flags) ==
            IF git_branch = develop \/ git_branch = master
            THEN <<"# Build Yandasoft\n",
                   "FROM ">> \o base_image \o <<" AS build_image \n",
                   "WORKDIR /home\n",
                   "RUN git clone https://gitlab.com/ASKAPSDP/all_yandasoft.git\n",
                   "WORKDIR /home/all_yandasoft\n",
                   "RUN ./git-do clone\n",
                   "RUN ./git-do checkout -b ">> \o git_branch \o <<"\n",
                   "# To fix version problem, use develop branch in askap-cmake \n",
                   "WORKDIR /home/all_yandasoft/askap-cmake \n",
                   "RUN git checkout develop \n",
                   "WORKDIR /home/all_yandasoft \n",
                   "RUN mkdir build\n",
                   "WORKDIR /home/all_yandasoft/build\n",
                   "RUN cmake ">> \o cmake_cxx_compiler \o <<" ">> \o cmake_cxx_flags
                     \o <<" ">> \o cmake_build_flags \o <<" .. \\\n",
                   "    && make -j">> \o py_str(nproc) \o <<" \\\n",
                   "    && make install\n">>
            ELSE \* Workaround for release version
                 <<"# Build Yandasoft\n",
                   "FROM ">> \o base_image \o <<" AS build_image \n",
                   "WORKDIR /home\n",
                   "RUN git clone https://gitlab.com/ASKAPSDP/all_yandasoft.git\n",
                   "WORKDIR /home/all_yandasoft\n",
                   "RUN ./git-do clone\n",
                   "# Workaround for versioning\n",
                   "RUN ./git-do checkout -b release/">> \o git_branch \o <<"\n",
                   "RUN ./git-do checkout -b ">> \o git_branch \o <<"\n",
                   "# To fix version problem, use develop branch in askap-cmake \n",
                   "WORKDIR /home/all_yandasoft/askap-cmake \n",
                   "RUN git checkout develop \n",
                   "WORKDIR /home/all_yandasoft \n",
                   "RUN mkdir build\n",
                   "WORKDIR /home/all_yandasoft/build\n",
                   "RUN cmake ">> \o cmake_cxx_compiler \o <<" ">> \o cmake_cxx_flags
                     \o <<" ">> \o cmake_build_flags \o <<" .. \\\n",
                   "    && make -j">> \o py_str(nproc) \o <<" \\\n",
                   "    && make install\n">>
    IN  IF image = yandasoft
        THEN Returned(PyStr(recipe(
                 <<"-DBUILD_ANALYSIS=OFF -DBUILD_PIPELINE=OFF -DBUILD_COMPONENTS=OFF ",
                   "-DBUILD_SERVICES=OFF">>)))
        ELSE IF image = askapsoft
        THEN Returned(PyStr(recipe(
                 <<"-DBUILD_ANALYSIS=ON -DBUILD_PIPELINE=ON -DBUILD_COMPONENTS=ON ",
                   "-DBUILD_SERVICES=OFF">>)))
        ELSE Raised("ValueError")

make_small_yandasoft_recipe(base_image) ==
    <<"# Build production image \n", "FROM ">> \o base_image \o <<" AS production_image \n">>
    \o <<"ENV DEBIAN_FRONTEND=\"noninteractive\" \n",
         "RUN apt-get update -q \\\n",
         "    && apt-get upgrade -y \\\n",
         "    && apt-get install -y --no-install-recommends ">>
    \o install_items(library_list)
    \o <<"\\\n",
         "    && apt-get clean all \\\n",
         "    && rm -rf /var/lib/apt/lists/* \n">>
    \o <<"# Copy executables and libraries from build_image \n",
         "COPY --from=build_image /usr/local/bin/* /usr/local/bin/ \n",
         "COPY --from=build_image /usr/local/lib/* /usr/local/lib/ \n">>
    \o <<"# Build the latest measures \n",
         "RUN mkdir /usr/local/share/casacore \\\n",
         "    && mkdir /usr/local/share/casacore/data \n",
         "WORKDIR /usr/local/share/casacore/data \n",
         "RUN wget ftp://ftp.astron.nl/outgoing/Measures/WSRT_Measures.ztar \\\n",
         "    && mv WSRT_Measures.ztar WSRT_Measures.tar.gz \\\n",
         "    && tar -zxf WSRT_Measures.tar.gz \\\n",
         "    && rm WSRT_Measures.tar.gz \n">>

\* ------------------------------------------------------------------------
\* make_yandasoft

recipe_end == <<"WORKDIR /home \n", "CMD [\"/bin/bash\"] \n">>

\* machine and mpi are Python values; git_branch and image are strings
make_yandasoft(machine, mpi, prepend, append, git_branch, image, execute, w0) ==
    IF machine # PyStr(generic) /\ machine # PyStr(galaxy)
    THEN Effect(DockerClass, w0, Raised("ValueError"))
    ELSE IF machine = PyStr(generic) /\ mpi.t # "str"
    THEN Effect(DockerClass, w0, Raised("TypeError"))
    ELSE
    LET \* the variant of generic, the machine itself of galaxy
        target == IF machine = PyStr(generic) THEN mpi.v ELSE machine.v
        base_image == <<"c", "s", "i", "r", "o", "c", "a", "s", "s", "/", "y", "a", "n", "d", "a", "b", "a", "s", "e", ":">> \o target
        big == make_big_yandasoft_recipe(base_image, image, git_branch)
        gitlab_docker == <<".", "g", "i", "t", "l", "a", "b", "-", "d", "o", "c", "k", "e", "r", "-">>
    IN  IF big.exc # "none" THEN Effect(DockerClass, w0, big)
        ELSE IF git_branch = develop
        THEN name_write_build(w0,
                            gitlab_docker \o image \o <<"-", "d", "e", "v", "-">> \o target,
                            prepend \o image \o <<":", "d", "e", "v", "-">> \o target \o append,
                                 header \o big.val.v \o recipe_end, execute)
        ELSE IF git_branch = master
        THEN name_write_build(w0,
                            gitlab_docker \o image \o <<"-">> \o target,
                            prepend \o image \o <<":">> \o target \o append,
                                 header \o big.val.v \o recipe_end, execute)
        ELSE LET version == Slice(git_branch, 0, 3)
                 small_base ==
                     IF machine = PyStr(generic)
                     THEN <<"c", "s", "i", "r", "o", "c", "a", "s", "s", "/", "b", "a", "s", "e", ":">> \o mpi.v
                     ELSE <<"pawsey/mpich-base:3.1.4_ubuntu18.04">>
             IN  name_write_build(w0,
                                gitlab_docker \o image \o <<"-">> \o version \o <<"-">>
                                    \o target,
                                prepend \o image \o <<":">> \o version \o <<"-">>
                                    \o target \o append,
                                 header \o big.val.v \o make_small_yandasoft_recipe(small_base) \o recipe_end, execute)

\* ------------------------------------------------------------------------
\* make_batch_file

batch_common_part ==
    <<"#!/bin/bash -l\n",
      "## This file is automatically created by ", "make_docker_images.py", "\n",
      "#SBATCH --ntasks=5\n",
      "##SBATCH --ntasks=305\n",
      "#SBATCH --time=02:00:00\n",
      "#SBATCH --job-name=cimager\n",
      "#SBATCH --export=NONE\n\n",
      "module load singularity/3.5.0\n">>

\* the part of make_batch_file after the MPI part is chosen; part is the
\* text of batch_mpi_part or PyNone when the name was never bound
write_batch_file(machine, mpi, w0, part) ==
    IF machine.t # "str" THEN Effect(DockerClass, w0, Raised("TypeError"))
    ELSE LET batch_file == <<"s", "a", "m", "p", "l", "e", "-">> \o machine.v \o <<"-">> \o mpi.v
                               \o <<".", "s", "b", "a", "t", "c", "h">>
             printed == print(w0, <<"Making batch file:", " ">> \o batch_file)
         IN  IF part = PyNone
             \* the file is opened, and so emptied, before the unbound name is read
             THEN Effect(DockerClass, open_w_write(printed, batch_file, <<>>),
                         Raised("UnboundLocalError"))
             ELSE Effect(DockerClass,
                         open_w_write(printed, batch_file, batch_common_part \o part.v),
                         Returned(PyNone))

make_batch_file_guard_on_parsed_version(machine, mpi, w0) ==
    LET parsed == get_mpi_type_and_version(mpi)
    IN  IF parsed.exc # "none" THEN Effect(DockerClass, w0, parsed)
        ELSE
        LET mpi_type == parsed.val.v[1]
            mpi_num == parsed.val.v[2]
            mpi_ver == PyStr(compose_version_number(mpi_num))
        IN  IF mpi_type = PyStr(mpich)
            THEN write_batch_file(machine, mpi, w0, PyStr(
                     <<"module load ">> \o <<"m", "p", "i", "c", "h", "/", "3", ".", "3", ".", "0">> \o <<"\n\n",
                       "mpirun -n 5 singularity exec ">>
                     \o <<"y", "a", "n", "d", "a", "s", "o", "f", "t", "-", "m", "p", "i", "c", "h", "_", "l", "a", "t", "e", "s", "t", ".", "s", "i", "f">>
                     \o <<" cimager -c dirty.in > dirty_${SLURM_JOB_ID}.log\n">>))
            ELSE IF mpi_type = PyStr(openmpi)
            THEN IF mpi_num # PyNone
                 THEN write_batch_file(machine, mpi, w0, PyStr(
                          <<"module load ">>
                          \o <<"o", "p", "e", "n", "m", "p", "i", "/">> \o mpi_ver.v \o <<"-", "o", "f", "e", "d", "4", "5", "-", "g", "c", "c">>
                          \o <<"\n\n", "mpirun -n 5 -oversubscribe singularity exec ">>
                          \o <<"y", "a", "n", "d", "a", "s", "o", "f", "t", "-">> \o mpi_ver.v \o <<"_", "l", "a", "t", "e", "s", "t", ".", "s", "i", "f">>
                          \o <<" cimager -c dirty.in > dirty_${SLURM_JOB_ID}.log\n">>))
                 ELSE write_batch_file(machine, mpi, w0, PyNone)
            ELSE Effect(DockerClass, w0, Raised("ValueError"))

\* machine and mpi are Python values
make_batch_file(machine, mpi, w0) ==
    LET parsed == get_mpi_type_and_version(mpi)
    IN  IF parsed.exc # "none" THEN Effect(DockerClass, w0, parsed)
        ELSE
        LET mpi_type == parsed.val.v[1]
            mpi_num == parsed.val.v[2]
            mpi_ver == PyStr(compose_version_number(mpi_num))
        IN  IF mpi_type = PyStr(mpich)
            THEN write_batch_file(machine, mpi, w0, PyStr(
                     <<"module load ">> \o <<"m", "p", "i", "c", "h", "/", "3", ".", "3", ".", "0">> \o <<"\n\n",
                       "mpirun -n 5 singularity exec ">>
                     \o <<"y", "a", "n", "d", "a", "s", "o", "f", "t", "-", "m", "p", "i", "c", "h", "_", "l", "a", "t", "e", "s", "t", ".", "s", "i", "f">>
                     \o <<" cimager -c dirty.in > dirty_${SLURM_JOB_ID}.log\n">>))
            ELSE IF mpi_type = PyStr(openmpi)
            THEN IF mpi_ver # PyNone
                 THEN write_batch_file(machine, mpi, w0, PyStr(
                          <<"module load ">>
                          \o <<"o", "p", "e", "n", "m", "p", "i", "/">> \o mpi_ver.v \o <<"-", "o", "f", "e", "d", "4", "5", "-", "g", "c", "c">>
                          \o <<"\n\n", "mpirun -n 5 -oversubscribe singularity exec ">>
                          \o <<"y", "a", "n", "d", "a", "s", "o", "f", "t", "-">> \o mpi_ver.v \o <<"_", "l", "a", "t", "e", "s", "t", ".", "s", "i", "f">>
                          \o <<" cimager -c dirty.in > dirty_${SLURM_JOB_ID}.log\n">>))
                 ELSE write_batch_file(machine, mpi, w0, PyNone)
            ELSE Effect(DockerClass, w0, Raised("ValueError"))

\* ------------------------------------------------------------------------
\* State
\*
\* arg, pc, ret      a pending or finished call of a codec function
\* docker_target     the DockerClass record
\* fs, log           the files of the working directory and the I/O events
\* succeeded         the setters that have returned normally on docker_target
\* last              the last call made: its name, arguments and outcome
\* argv              the arguments of the process: product kind, execute flag
\* status            "running", or "aborted" after an uncaught exception
\* made              the targets make_yandasoft has completed, with their names
\* machine_targets   the machine list of the settings, after sanitizing
\* mpi_targets       the variant list of the settings, after sanitizing
\* at                the position of main: its line and the (1-based) indices
\*                   of the entries its two loops take next
\* calls             the builder invocations of main so far, in order

VARIABLES arg, pc, ret, docker_target, fs, log, succeeded, last, argv, status, made,
          machine_targets, mpi_targets, at, calls

cvars == <<arg, pc, ret>>

dvars == <<docker_target, fs, log, succeeded, last>>

mvars == <<argv, status, made>>

nvars == <<machine_targets, mpi_targets, at, calls>>

vars == <<arg, pc, ret, docker_target, fs, log, succeeded, last, argv, status, made,
          machine_targets, mpi_targets, at, calls>>

NoCall == [op |-> "none", args |-> <<>>, out |-> Returned(PyNone)]

CodecIdle == arg = PyNone /\ pc = "idle" /\ ret = Returned(PyNone)

MakeIdle == argv = PyNone /\ status = "idle" /\ made = {}

MainIdle ==
    /\ machine_targets = <<>>
    /\ mpi_targets = <<>>
    /\ at = [line |-> "idle", machine |-> 0, mpi |-> 0]
    /\ calls = <<>>

DockerIdle ==
    /\ docker_target = DockerClass
    /\ fs = NoFiles
    /\ log = <<>>
    /\ succeeded = {}
    /\ last = NoCall

\* ------------------------------------------------------------------------
\* The codec specification: one input value, the functions applied to it

\* characters of the tails: a separator, a dot and two digits
TailAlphabet == {"-", ".", "0", "1"}

Tails == UNION {[1..n -> TailAlphabet] : n \in 0..MaxTail}

\* the tails appended to a family name are one character shorter
NameTails == UNION {[1..n -> TailAlphabet] : n \in 0..(MaxTail - 1)}

Prefixes == {<<>>, mpich, openmpi}

\* strings that are no family name and start with none
OtherNames ==
    {<<"m", "p", "i", "c", "x">>,
     <<"o", "p", "e", "n", "m", "p">>,
     <<"o", "p", "e", "n", "m", "p", "x">>,
     <<"m", "p", "i", "c", "x", "-", "1", ".", "0", ".", "1">>,
     <<"x", "m", "p", "i", "c", "h", "-", "1", ".", "0", ".", "1">>,
     <<"o", "p", "e", "n", "m", "p", "-", "1", ".", "0", ".", "1">>,
     <<"o", "p", "e", "n", "m", "p", "x", "-", "1", ".", "0", ".", "1">>}

\* names with and without forbidden characters
NameStrings ==
    {<<>>, <<"a">>, <<"a", "b">>, <<" ">>, <<"a", " ">>, <<";", "a">>,
     <<"a", "\n">>, <<"a", "/", "b">>, <<"a", "|", "b">>, <<"\\v">>,
     mpich, <<"m", "p", "i", "c", "h", "-", "1", ".", "0", ".", "1">>}

NonText == {PyNone, PyList(<<1, 2, 3>>), PyList(<<>>), PyBool(TRUE)}

SplitInputs == {PyStr(t) : t \in Tails} \cup NonText

ComposeInputs == NonText \cup {PyList(<<1, 2>>), PyList(<<10, 0, 1>>), PyList(<<1, 2, 3, 4>>)}

ParseInputs ==
    {PyStr(p \o t) : p \in Prefixes, t \in NameTails}
        \cup {PyStr(n) : n \in OtherNames} \cup NonText

NameInputs == {PyStr(n) : n \in NameStrings} \cup NonText

\* arguments of make_big_yandasoft_recipe: the base images of two targets,
\* the product flavors and others, the two branches and other revisions
RecipeInputs ==
    [t : {"args"},
     base_image : {name_prepend \o yandabase \o <<":">> \o mpich,
                   name_prepend \o yandabase \o <<":">> \o galaxy},
     image : {yandasoft, askapsoft, yandabase, <<"o", "t", "h", "e", "r">>},
     git_branch : {develop, master, <<"1", ".", "2", ".", "3">>, <<"d", "e", "v">>,
                   <<"M", "a", "s", "t", "e", "r">>, <<>>}]

\* a call of one of the functions is pending on an argument
CodecInit ==
    /\ \/ pc = "call_split" /\ arg \in SplitInputs
       \/ pc = "call_compose" /\ arg \in ComposeInputs
       \/ pc = "call_parse" /\ arg \in ParseInputs
       \/ pc = "call_name" /\ arg \in NameInputs
       \/ pc = "call_recipe" /\ arg \in RecipeInputs
    /\ ret = Returned(PyNone)
    /\ DockerIdle
    /\ MakeIdle
    /\ MainIdle

\* split_version_number(arg); re.findall raises TypeError for a non-string
CallSplit ==
    /\ pc = "call_split"
    /\ pc' = "split"
    /\ ret' = IF arg.t = "str"
              THEN Returned(PyList(split_version_number(arg.v)))
              ELSE Raised("TypeError")
    /\ UNCHANGED arg
    /\ UNCHANGED <<dvars, mvars, nvars>>

\* compose_version_number(split_version_number(arg))
CallComposeOfSplit ==
    /\ pc = "split"
    /\ ret.exc = "none"
    /\ pc' = "compose"
    /\ ret' = Returned(PyStr(compose_version_number(ret.val)))
    /\ UNCHANGED arg
    /\ UNCHANGED <<dvars, mvars, nvars>>

\* compose_version_number(arg)
CallCompose ==
    /\ pc = "call_compose"
    /\ pc' = "compose_raw"
    /\ ret' = Returned(PyStr(compose_version_number(arg)))
    /\ UNCHANGED arg
    /\ UNCHANGED <<dvars, mvars, nvars>>

CallParse ==
    /\ pc = "call_parse"
    /\ pc' = "parse"
    /\ ret' = get_mpi_type_and_version(arg)
    /\ UNCHANGED arg
    /\ UNCHANGED <<dvars, mvars, nvars>>

CallIsProperName ==
    /\ pc = "call_name"
    /\ pc' = "name"
    /\ ret' = is_proper_name(arg)
    /\ UNCHANGED arg
    /\ UNCHANGED <<dvars, mvars, nvars>>

CallBigRecipe ==
    /\ pc = "call_recipe"
    /\ pc' = "recipe"
    /\ ret' = make_big_yandasoft_recipe(arg.base_image, arg.image, arg.git_branch)
    /\ UNCHANGED arg
    /\ UNCHANGED <<dvars, mvars, nvars>>

CodecNext ==
    \/ CallSplit
    \/ CallComposeOfSplit
    \/ CallCompose
    \/ CallParse
    \/ CallIsProperName
    \/ CallBigRecipe

CodecSpec == CodecInit /\ [][CodecNext]_vars

\* ------------------------------------------------------------------------
\* Notions the statements about the codec and the parser are written in,
\* defined on the strings themselves and not through the functions above

IsDigits(s) == s # <<>> /\ \A k \in 1..Len(s) : s[k] \in Digit

NoLeadingZero(d) == Len(d) = 1 \/ d[1] # "0"

\* s is three groups of digits separated by two dots
WellFormedVersion(s) ==
    \E i, j \in 1..Len(s) :
        /\ i < j /\ s[i] = "." /\ s[j] = "."
        /\ IsDigits(SubSeq(s, 1, i - 1))
        /\ IsDigits(SubSeq(s, i + 1, j - 1))
        /\ IsDigits(SubSeq(s, j + 1, Len(s)))

\* the same, and no group has a superfluous leading zero
CanonicalVersion(s) ==
    \E i, j \in 1..Len(s) :
        /\ i < j /\ s[i] = "." /\ s[j] = "."
        /\ IsDigits(SubSeq(s, 1, i - 1)) /\ NoLeadingZero(SubSeq(s, 1, i - 1))
        /\ IsDigits(SubSeq(s, i + 1, j - 1)) /\ NoLeadingZero(SubSeq(s, i + 1, j - 1))
        /\ IsDigits(SubSeq(s, j + 1, Len(s))) /\ NoLeadingZero(SubSeq(s, j + 1, Len(s)))

\* the positions where a maximal run of digits starts
RunStarts(s) ==
    {i \in 1..Len(s) : s[i] \in Digit /\ (i = 1 \/ s[i - 1] \notin Digit)}

\* the position where the run that starts at i ends
RunEnd(s, i) ==
    CHOOSE j \in i..Len(s) :
        /\ \A k \in i..j : s[k] \in Digit
        /\ j = Len(s) \/ s[j + 1] \notin Digit

\* the start of the k-th run from the left
RunStart(s, k) ==
    CHOOSE i \in RunStarts(s) : Cardinality({q \in RunStarts(s) : q < i}) = k - 1

RECURSIVE DecimalValue(_)
DecimalValue(d) ==
    IF d = <<>> THEN 0
    ELSE 10 * DecimalValue(SubSeq(d, 1, Len(d) - 1)) + DigitVal(d[Len(d)])

HasThreeRuns(s) == Cardinality(RunStarts(s)) = 3

\* the integers of the three runs of s, in order
RunValues(s) ==
    [k \in 1..3 |->
        LET i == RunStart(s, k) IN DecimalValue(SubSeq(s, i, RunEnd(s, i)))]

StartsWith(s, p) == Len(s) >= Len(p) /\ SubSeq(s, 1, Len(p)) = p

ForbiddenSet == {forbidden_chars[i] : i \in 1..Len(forbidden_chars)}

\* C1 (as stated): for every string of three groups of digits separated by
\* dots, compose_version_number(split_version_number(s)) is s.
C1_RoundTripAnyDigits ==
    (pc = "compose" /\ arg.t = "str" /\ WellFormedVersion(arg.v))
        => ret = Returned(PyStr(arg.v))

\* C1 (amended): for every string of three groups of digits separated by
\* dots in which no group has a leading zero besides the single digit 0,
\* compose_version_number(split_version_number(s)) is s.
C1_RoundTripCanonical ==
    (pc = "compose" /\ arg.t = "str" /\ CanonicalVersion(arg.v))
        => ret = Returned(PyStr(arg.v))

C1_Witness ==
    /\ pc = "compose" /\ arg.t = "str" /\ CanonicalVersion(arg.v)
    /\ Len(arg.v) = 6
    /\ ret = Returned(PyStr(arg.v))

\* C2: for a string input split_version_number does not raise; it returns
\* the integers of the maximal digit runs, in order, when there are exactly
\* three runs, and the empty list otherwise.
C2_SplitThreeRunsOrEmpty ==
    (pc = "split" /\ arg.t = "str") =>
        /\ ret.exc = "none"
        /\ ret.val.t = "list"
        /\ IF HasThreeRuns(arg.v)
           THEN ret.val.v = RunValues(arg.v)
           ELSE ret.val.v = <<>>

C2_Witness ==
    /\ pc = "split" /\ arg.t = "str" /\ HasThreeRuns(arg.v)
    /\ ret.exc = "none" /\ Len(ret.val.v) = 3
    /\ ret.val.v[1] = 10

\* The length rules of the parser for string s and outcome out, the version
\* suffix of a long string starting skip characters after the family name.
LongRule(s, out, fam, skip) ==
    LET suffix == SliceFrom(s, Len(fam) + skip)
    IN  IF HasThreeRuns(suffix)
        THEN out = Returned(PyTuple(PyStr(fam), PyList(RunValues(suffix))))
        ELSE out.exc # "none"

LengthRules(s, out, skip) ==
    /\ Len(s) < 5 => out.exc # "none"
    /\ Len(s) = 5 => IF s = mpich
                     THEN out = Returned(PyTuple(PyStr(mpich), PyNone))
                     ELSE out.exc # "none"
    /\ Len(s) = 6 => out.exc # "none"
    /\ Len(s) = 7 => IF s = openmpi
                     THEN out = Returned(PyTuple(PyStr(openmpi), PyNone))
                     ELSE out.exc # "none"
    /\ Len(s) > 7 => IF StartsWith(s, mpich) THEN LongRule(s, out, mpich, skip)
                     ELSE IF StartsWith(s, openmpi) THEN LongRule(s, out, openmpi, skip)
                     ELSE out.exc # "none"

\* C3 (as stated): get_mpi_type_and_version follows the length rules, a
\* string longer than 7 that starts with a family name returning the family
\* and the three integers of its suffix (the text after the family name)
\* when that suffix has exactly three digit runs, and raising otherwise.
C3_LengthRulesSuffixAfterName ==
    (pc = "parse" /\ arg.t = "str") => LengthRules(arg.v, ret, 0)

\* C3 (amended): the same length rules, the suffix of a long string being
\* the text after the one character that follows the family name; that
\* character is skipped without being examined.
C3_LengthRulesSuffixAfterSeparator ==
    (pc = "parse" /\ arg.t = "str") => LengthRules(arg.v, ret, 1)

C3_Witness ==
    /\ pc = "parse"
    /\ arg = PyStr(openmpi \o <<"-", "1", ".", "0", ".", "1">>)
    /\ ret = Returned(PyTuple(PyStr(openmpi), PyList(<<1, 0, 1>>)))

\* s is the family name, a dash and a well-formed version
IsVersioned(s, fam) ==
    /\ StartsWith(s, fam)
    /\ Len(s) > Len(fam) + 1
    /\ s[Len(fam) + 1] = "-"
    /\ WellFormedVersion(SliceFrom(s, Len(fam) + 1))

\* what a parser of ^(mpich|openmpi)(-\d+\.\d+\.\d+)?$ gives for s
MatchesGrammar(s) ==
    s = mpich \/ s = openmpi \/ IsVersioned(s, mpich) \/ IsVersioned(s, openmpi)

GrammarResult(s) ==
    IF s = mpich THEN PyTuple(PyStr(mpich), PyNone)
    ELSE IF s = openmpi THEN PyTuple(PyStr(openmpi), PyNone)
    ELSE IF IsVersioned(s, mpich)
         THEN PyTuple(PyStr(mpich), PyList(RunValues(SliceFrom(s, 6))))
    ELSE PyTuple(PyStr(openmpi), PyList(RunValues(SliceFrom(s, 8))))

\* C4: get_mpi_type_and_version returns a result exactly for the strings of
\* the grammar ^(mpich|openmpi)(-\d+\.\d+\.\d+)?$ (the family and an absent
\* version for a bare name, the family and the triple for a dashed triple)
\* and raises for every other string.
C4_SameAsGrammar ==
    (pc = "parse" /\ arg.t = "str") =>
        IF MatchesGrammar(arg.v)
        THEN ret = Returned(GrammarResult(arg.v))
        ELSE ret.exc # "none"

\* C5: is_proper_name raises a type error for a non-text value, returns
\* false for the empty string and for a string with a forbidden character,
\* and true for every other string.
C5_ProperName ==
    pc = "name" =>
        IF arg.t # "str" THEN ret = Raised("TypeError")
        ELSE ret = Returned(PyBool(
                 /\ arg.v # <<>>
                 /\ \A k \in 1..Len(arg.v) : arg.v[k] \notin ForbiddenSet))

C5_Witness ==
    /\ pc = "name"
    /\ arg = PyStr(<<"a", "|", "b">>)
    /\ ret = Returned(PyBool(FALSE))

\* ------------------------------------------------------------------------
\* The DockerClass specification: one record, starting empty, and any
\* sequence of calls of its methods; a caller that goes on after a raise

NameValues ==
    {PyStr(<<>>), PyStr(<<"a">>), PyStr(<<"b">>), PyStr(<<"a", " ">>), PyNone}

RecipeValues ==
    {PyStr(<<>>), PyStr(<<"FROM x\n">>), PyStr(<<"FROM y\n">>), PyNone}

Setters == {"set_recipe_name", "set_recipe", "set_image_name"}

DockerInit ==
    /\ CodecIdle
    /\ MakeIdle
    /\ MainIdle
    /\ docker_target = DockerClass
    /\ fs \in {NoFiles, [q \in {<<"a">>} |-> <<"FROM old\n">>]}
    /\ log = <<>>
    /\ succeeded = {}
    /\ last = NoCall

\* the state after the call op(args) that had effect e
Called(op, args, e) ==
    /\ docker_target' = e.self
    /\ fs' = e.w.fs
    /\ log' = e.w.log
    /\ succeeded' = IF op \in Setters /\ e.out.exc = "none"
                    THEN succeeded \cup {op}
                    ELSE succeeded
    /\ last' = [op |-> op, args |-> args, out |-> e.out]
    /\ UNCHANGED <<cvars, mvars, nvars>>

SetRecipeName ==
    \E v \in NameValues :
        /\ v \in NameValues
        /\ Called("set_recipe_name", <<v>>,
                  set_recipe_name(docker_target, World(fs, log), v))

SetRecipe ==
    \E v \in RecipeValues :
        /\ v \in RecipeValues
        /\ Called("set_recipe", <<v>>, set_recipe(docker_target, World(fs, log), v))

SetImageName ==
    \E v \in NameValues :
        /\ v \in NameValues
        /\ Called("set_image_name", <<v>>,
                  set_image_name(docker_target, World(fs, log), v))

WriteRecipe ==
    /\ Len(log) < MaxEvents
    /\ Called("write_recipe", <<>>, write_recipe(docker_target, World(fs, log)))

GetBuildCommand ==
    /\ Len(log) <= MaxEvents
    /\ Called("get_build_command", <<>>, get_build_command(docker_target, World(fs, log)))

BuildImage ==
    /\ Len(log) < MaxEvents
    /\ Called("build_image", <<>>, build_image(docker_target, World(fs, log)))

DockerNext ==
    \/ SetRecipeName
    \/ SetRecipe
    \/ SetImageName
    \/ WriteRecipe
    \/ GetBuildCommand
    \/ BuildImage

DockerSpec == DockerInit /\ [][DockerNext]_vars

\* C6: on a record that starts empty, get_build_command returns a command
\* only if set_recipe_name and set_image_name have both succeeded earlier
\* and raises a value error otherwise; write_recipe writes the file only if
\* set_recipe_name and set_recipe have both succeeded earlier and otherwise
\* raises a value error and writes nothing.
C6_SettersBeforeCommandAndWrite ==
    [][/\ last'.op = "get_build_command" =>
            /\ last'.out.exc = "none"
                   => {"set_recipe_name", "set_image_name"} \subseteq succeeded
            /\ ~({"set_recipe_name", "set_image_name"} \subseteq succeeded)
                   => last'.out.exc = "ValueError"
       /\ last'.op = "write_recipe" =>
            /\ (fs' # fs \/ log' # log)
                   => {"set_recipe_name", "set_recipe"} \subseteq succeeded
            /\ ~({"set_recipe_name", "set_recipe"} \subseteq succeeded)
                   => last'.out.exc = "ValueError" /\ fs' = fs /\ log' = log
      ]_vars

C6_Witness ==
    /\ last.op = "get_build_command"
    /\ last.out.exc = "none"
    /\ succeeded = Setters
    /\ \E i \in 1..Len(log) : log[i].ev = "write"
    /\ docker_target.recipe_name \in DOMAIN fs

\* ------------------------------------------------------------------------
\* The run specification: one process, started for a product kind with or
\* without the execute flag, calls make_yandabase, make_yandasoft and
\* make_batch_file for one target after another, or build_image on a record
\* it has not written; an exception is not caught and ends the process

unknown_machine == <<"m", "a", "g", "n", "u", "s">>
unknown_image == <<"o", "t", "h", "e", "r">>

MakeMachines == {PyStr(generic), PyStr(galaxy), PyStr(unknown_machine)}

MakeMpis ==
    {PyStr(mpich), PyStr(<<"o", "p", "e", "n", "m", "p", "i", "4">>), PyStr(<<"m", "p", "i", " ", "c", "h">>), PyNone}

GitBranches == {develop, master, <<"1", ".", "2", ".", "3">>, <<"d", "e", "v">>, <<"1", " ", "2">>}

Images == {yandabase, yandasoft, askapsoft, unknown_image}

BatchMachines == {PyStr(generic), PyStr(<<"h", "p", "c", " ", "1">>)}

BatchMpis ==
    {PyStr(mpich), PyStr(openmpi), PyStr(<<"o", "p", "e", "n", "m", "p", "i", "-", "4", ".", "0", ".", "1">>),
     PyStr(<<"m", "p", "i", "c", "h", " ", "3", " ", "3", " ", "0">>), PyStr(<<"l", "a", "m", "-", "7", ".", "1", ".", "4">>)}

MakeInit ==
    /\ CodecIdle
    /\ DockerIdle
    /\ MainIdle
    /\ argv \in [image : Images, execute : BOOLEAN]
    /\ status = "running"
    /\ made = {}

\* the targets completed so far: each wrote one file
TargetsDone == Cardinality({i \in 1..Len(log) : log[i].ev = "write"})

\* the state after the call op(args) that had effect e: a raise ends the
\* process, and then nothing is returned to the caller
Finished(op, args, e) ==
    /\ docker_target' = IF e.out.exc = "none" THEN e.self ELSE docker_target
    /\ fs' = e.w.fs
    /\ log' = e.w.log
    /\ last' = [op |-> op, args |-> args, out |-> e.out]
    /\ status' = IF e.out.exc = "none" THEN "running" ELSE "aborted"
    /\ made' = IF op = "make_yandasoft" /\ e.out.exc = "none"
               THEN made \cup {[machine |-> args.machine, mpi |-> args.mpi,
                                git_branch |-> args.git_branch, image |-> argv.image,
                                recipe_name |-> e.self.recipe_name,
                                image_name |-> e.self.image_name]}
               ELSE made
    /\ UNCHANGED <<cvars, succeeded, argv, nvars>>

MakeYandabase ==
    \E machine \in MakeMachines, mpi \in MakeMpis :
        /\ status = "running"
        /\ TargetsDone < MaxTargets
        /\ argv.image = yandabase
        /\ Finished("make_yandabase",
                    [machine |-> machine, mpi |-> mpi, git_branch |-> <<>>],
                    make_yandabase(machine, mpi, name_prepend, name_append,
                                   argv.execute, World(fs, log)))

MakeYandasoft ==
    \E machine \in MakeMachines, mpi \in MakeMpis, git_branch \in GitBranches :
        /\ status = "running"
        /\ TargetsDone < MaxTargets
        /\ argv.image # yandabase
        /\ Finished("make_yandasoft",
                    [machine |-> machine, mpi |-> mpi, git_branch |-> git_branch],
                    make_yandasoft(machine, mpi, name_prepend, name_append, git_branch,
                                   argv.image, argv.execute, World(fs, log)))

MakeBatchFile ==
    \E machine \in BatchMachines, mpi \in BatchMpis :
        /\ status = "running"
        /\ TargetsDone < MaxTargets
        /\ Finished("make_batch_file",
                    [machine |-> machine, mpi |-> mpi, git_branch |-> <<>>],
                    make_batch_file(machine, mpi, World(fs, log)))

\* a caller of the class makes a record, sets none, one or both of its names
\* and calls build_image on it without having written the recipe
BuildImageUnwritten ==
    \E names \in SUBSET {"recipe_name", "image_name"} :
        LET named == IF "recipe_name" \in names
                     THEN set_recipe_name(DockerClass, World(fs, log),
                                          PyStr(<<"D", "o", "c", "k", "e", "r", "f", "i", "l", "e">>)).self
                     ELSE DockerClass
            record == IF "image_name" \in names
                      THEN set_image_name(named, World(fs, log), PyStr(<<"i", "m", "g">>)).self
                      ELSE named
        IN  /\ status = "running"
            /\ TargetsDone < MaxTargets
            /\ ~is_file(World(fs, log), record.recipe_name)
            /\ Finished("build_image", [record |-> record],
                        build_image(record, World(fs, log)))

MakeNext ==
    \/ MakeYandabase
    \/ MakeYandasoft
    \/ MakeBatchFile
    \/ BuildImageUnwritten

MakeSpec == MakeInit /\ [][MakeNext]_vars

\* no character of the text is a forbidden character; the template literals
\* of a command are pieces longer than one character
NoForbiddenChar(text) == \A k \in 1..Len(text) : text[k] \notin ForbiddenSet

IsBuildCommand(text) ==
    text # <<>> /\ text[1] = "docker build --no-cache --pull -t "

\* C7: every path opened for writing and every build command assembled
\* embeds only names that pass is_proper_name (non-empty, no forbidden
\* character), for the recipe files and commands of make_yandabase and
\* make_yandasoft and for the batch file of make_batch_file.
C7_OnlyProperNamesEmbedded ==
    \A i \in 1..Len(log) :
        /\ log[i].ev = "write" => log[i].what # <<>> /\ NoForbiddenChar(log[i].what)
        /\ (log[i].ev = "run" \/ (log[i].ev = "print" /\ IsBuildCommand(log[i].what)))
               => NoForbiddenChar(log[i].what)

\* the call was make_batch_file(machine, "openmpi") for a string machine
BatchOfBareOpenmpi ==
    /\ last.op = "make_batch_file"
    /\ last.args.mpi = PyStr(openmpi)
    /\ last.args.machine.t = "str"

BareOpenmpiBatchFile ==
    <<"s", "a", "m", "p", "l", "e", "-">> \o last.args.machine.v \o <<"-", "o", "p", "e", "n", "m", "p", "i", ".", "s", "b", "a", "t", "c", "h">>

\* the text has a module line of the openmpi branch
HasOpenmpiModuleLine(text) ==
    \E k \in 1..Len(text) :
        /\ text[k] = "module load "
        /\ k + 8 <= Len(text)
        /\ SubSeq(text, k + 1, k + 8) = <<"o", "p", "e", "n", "m", "p", "i", "/">>

\* C8 (as stated): for the input "openmpi" the branch of make_batch_file
\* that builds the module and image strings is not entered: the batch
\* content is unset when it is used, so the call raises and no batch file
\* with openmpi module and image lines is produced.
C8_BareOpenmpiLeavesContentUnset ==
    BatchOfBareOpenmpi =>
        /\ last.out.exc # "none"
        /\ BareOpenmpiBatchFile \in DOMAIN fs
               => ~HasOpenmpiModuleLine(fs[BareOpenmpiBatchFile])

\* C8 (amended): for the input "openmpi" compose_version_number gives the
\* empty string for the absent version, which is not None, so the branch is
\* entered: the call returns and the batch file holds the common part, the
\* module line of "openmpi/-ofed45-gcc" and the mpirun line of the image
\* "yandasoft-_latest.sif".
C8_BareOpenmpiWritesEmptyVersion ==
    BatchOfBareOpenmpi =>
        /\ last.out.exc = "none"
        /\ BareOpenmpiBatchFile \in DOMAIN fs
        /\ fs[BareOpenmpiBatchFile] =
               batch_common_part
               \o <<"module load ">> \o <<"o", "p", "e", "n", "m", "p", "i", "/", "-", "o", "f", "e", "d", "4", "5", "-", "g", "c", "c">>
               \o <<"\n\n", "mpirun -n 5 -oversubscribe singularity exec ">>
               \o <<"y", "a", "n", "d", "a", "s", "o", "f", "t", "-", "_", "l", "a", "t", "e", "s", "t", ".", "s", "i", "f">>
               \o <<" cimager -c dirty.in > dirty_${SLURM_JOB_ID}.log\n">>

C8_Witness ==
    /\ BatchOfBareOpenmpi
    /\ last.args.machine = PyStr(generic)
    /\ status = "running"
    /\ HasOpenmpiModuleLine(fs[<<"s", "a", "m", "p", "l", "e", "-", "g", "e", "n", "e", "r", "i", "c", "-", "o", "p", "e", "n", "m", "p", "i", ".", "s", "b", "a", "t", "c", "h">>])

RevisionCase(git_branch) ==
    IF git_branch = develop THEN "develop"
    ELSE IF git_branch = master THEN "master"
    ELSE "release tag"

\* C9: for one product kind, machine and variant, the recipe file names and
\* the image names make_yandasoft gives to "develop", to "master" and to any
\* other revision string are pairwise different.
C9_RevisionCasesNamedApart ==
    \A t1, t2 \in made :
        (/\ t1.image = t2.image
         /\ t1.machine = t2.machine
         /\ t1.mpi = t2.mpi
         /\ RevisionCase(t1.git_branch) # RevisionCase(t2.git_branch))
            => /\ t1.recipe_name # t2.recipe_name
               /\ t1.image_name # t2.image_name

\* what make_yandabase and make_yandasoft must refuse
UnknownMachine(a) == a.machine \notin {PyStr(generic), PyStr(galaxy)}

UnknownProductKind(op) == op = "make_yandasoft" /\ argv.image \notin {yandasoft, askapsoft}

\* an identifier that goes into the names has a forbidden character
RejectedIdentifier(op, a) ==
    \/ a.machine = PyStr(generic) /\ a.mpi.t = "str" /\ ~NoForbiddenChar(a.mpi.v)
    \/ /\ op = "make_yandasoft"
       /\ RevisionCase(a.git_branch) = "release tag"
       /\ ~NoForbiddenChar(Slice(a.git_branch, 0, 3))

\* C10: a call of make_yandabase or make_yandasoft either completes (the
\* recipe file is written, then the build command is run or printed, and
\* the other files stay as they are) or raises with no file written and the
\* files of earlier targets unchanged; an unknown machine, an unknown product
\* kind and a rejected identifier raise; after a raise the process makes no
\* further call.
C10_TargetCompletesOrRaisesClean ==
    [][/\ last'.op \in {"make_yandabase", "make_yandasoft"} =>
            /\ \/ /\ last'.out.exc = "none"
                  /\ status' = "running"
                  /\ docker_target'.recipe_name \in DOMAIN fs'
                  /\ fs'[docker_target'.recipe_name] = docker_target'.recipe
                  /\ \A q \in DOMAIN fs \ {docker_target'.recipe_name} :
                         q \in DOMAIN fs' /\ fs'[q] = fs[q]
                  /\ Len(log') = Len(log) + 2
                  /\ SubSeq(log', 1, Len(log)) = log
                  /\ log'[Len(log) + 1] =
                         [ev |-> "write", what |-> docker_target'.recipe_name]
                  /\ log'[Len(log) + 2].ev = IF argv.execute THEN "run" ELSE "print"
                  /\ IsBuildCommand(log'[Len(log) + 2].what)
               \/ /\ last'.out.exc # "none"
                  /\ status' = "aborted"
                  /\ fs' = fs
                  /\ log' = log
            /\ (\/ UnknownMachine(last'.args)
                \/ UnknownProductKind(last'.op)
                \/ RejectedIdentifier(last'.op, last'.args))
                   => last'.out.exc # "none"
       /\ status = "aborted" => UNCHANGED vars
      ]_vars

C10_Witness ==
    /\ status = "aborted"
    /\ last.op = "make_yandasoft"
    /\ last.out.exc = "ValueError"
    /\ RejectedIdentifier(last.op, last.args)
    /\ DOMAIN fs # {}
    /\ \E i \in 1..Len(log) : log[i].ev = "run"

\* ------------------------------------------------------------------------
\* The main specification: the script started with a product kind, a git
\* branch and the execute flag, under one setting of the two target lists;
\* main walks the lists and calls a builder for each target

\* the longest variant list of the settings
MaxVariants == 2

upper_letters ==
    <<"A", "B", "C", "D", "E", "F", "G", "H", "I", "J", "K", "L", "M",
      "N", "O", "P", "Q", "R", "S", "T", "U", "V", "W", "X", "Y", "Z">>

lower_letters ==
    <<"a", "b", "c", "d", "e", "f", "g", "h", "i", "j", "k", "l", "m",
      "n", "o", "p", "q", "r", "s", "t", "u", "v", "w", "x", "y", "z">>

\* str.lower of a string of characters
str_lower(s) ==
    [k \in 1..Len(s) |->
        IF \E u \in 1..26 : upper_letters[u] = s[k]
        THEN lower_letters[CHOOSE u \in 1..26 : upper_letters[u] = s[k]]
        ELSE s[k]]

\* list(map(str.lower, targets))
sanitize(targets) == [k \in 1..Len(targets) |-> str_lower(targets[k])]

openmpi4 == <<"o", "p", "e", "n", "m", "p", "i", "4">>

\* settings of the machine list: the shipped one, the one of its comment,
\* and others a user can write
MachineSettings ==
    {<<generic>>, <<generic, galaxy>>, <<galaxy, generic>>, <<galaxy>>,
     <<<<"G", "e", "n", "e", "r", "i", "c">>>>, <<unknown_machine, generic>>, <<>>}

VariantNames == {mpich, openmpi4, <<"M", "P", "I", "C", "H">>, <<"m", "p", "i", " ", "c", "h">>}

VariantSettings == UNION {[1..n -> VariantNames] : n \in 0..MaxVariants}

\* -g: the default, the other branch and a release tag
MainBranches == {master, develop, <<"1", ".", "2", ".", "3">>}

\* print(text, git_branch): the arguments are joined by a space
main_message(w, text, git_branch) == print(w, <<text, " ">> \o git_branch)

\* the product kind is announced or refused
main_select(image, git_branch, execute, w) ==
    IF image = yandabase
    THEN IF execute
         THEN Effect(DockerClass, print(w, <<"Making yandabase image">>), Returned(PyNone))
         ELSE Effect(DockerClass, print(w, <<"Making the recipe for yandabase">>),
                     Returned(PyNone))
    ELSE IF image = yandasoft
    THEN IF execute
         THEN Effect(DockerClass,
                     main_message(w, "Making yandasoft image from git branch", git_branch),
                     Returned(PyNone))
         ELSE Effect(DockerClass,
                     main_message(w, "Making the recipe for yandasoft image from git branch",
                                  git_branch),
                     Returned(PyNone))
    ELSE IF image = askapsoft
    THEN IF execute
         THEN Effect(DockerClass,
                     main_message(w, "Making askapsoft image from git branch", git_branch),
                     Returned(PyNone))
         ELSE Effect(DockerClass,
                     main_message(w, "Making the recipe for askapsoft image from git branch",
                                  git_branch),
                     Returned(PyNone))
    ELSE Effect(DockerClass, w, Raised("ValueError"))

\* the body of both loops: the builder of the product kind, called with
\* mpi_of_base or mpi_of_soft as its variant; op is the builder called
main_build(image, machine, mpi_of_base, mpi_of_soft, git_branch, execute, w) ==
    IF image = yandabase
    THEN [op |-> "make_yandabase", mpi |-> mpi_of_base,
          e |-> make_yandabase(machine, mpi_of_base, name_prepend, name_append,
                               execute, w)]
    ELSE IF image = yandasoft \/ image = askapsoft
    THEN [op |-> "make_yandasoft", mpi |-> mpi_of_soft,
          e |-> make_yandasoft(machine, mpi_of_soft, name_prepend, name_append,
                               git_branch, image, execute, w)]
    ELSE [op |-> "none", mpi |-> PyNone, e |-> Effect(DockerClass, w, Raised("ValueError"))]

MainInit ==
    /\ CodecIdle
    /\ DockerIdle
    /\ made = {}
    /\ argv \in [image : Images, git_branch : MainBranches, execute : BOOLEAN]
    /\ status = "running"
    /\ machine_targets \in {sanitize(setting) : setting \in MachineSettings}
    /\ mpi_targets \in {sanitize(setting) : setting \in VariantSettings}
    /\ at = [line |-> "select", machine |-> 1, mpi |-> 1]
    /\ calls = <<>>

\* main moves on without a call
Moved == UNCHANGED <<cvars, dvars, mvars, machine_targets, mpi_targets, calls>>

\* the state after the loop body b ran for machine: the builder's effect, the
\* invocation recorded, and the loop at next unless the builder raised
Invoked(machine, b, next) ==
    /\ docker_target' = IF b.e.out.exc = "none" THEN b.e.self ELSE docker_target
    /\ fs' = b.e.w.fs
    /\ log' = b.e.w.log
    /\ last' = [op |-> b.op,
                args |-> [machine |-> machine, mpi |-> b.mpi, git_branch |-> argv.git_branch],
                out |-> b.e.out]
    /\ status' = IF b.e.out.exc = "none" THEN "running" ELSE "aborted"
    /\ calls' = IF b.op = "none" THEN calls
                ELSE Append(calls, [op |-> b.op, machine |-> machine, mpi |-> b.mpi])
    /\ at' = IF b.e.out.exc = "none" THEN next ELSE at
    /\ UNCHANGED <<cvars, succeeded, argv, made, machine_targets, mpi_targets>>

\* the if chain on image before the loops
MainSelect ==
    /\ status = "running"
    /\ at.line = "select"
    /\ LET e == main_select(argv.image, argv.git_branch, argv.execute, World(fs, log))
       IN  /\ fs' = e.w.fs
           /\ log' = e.w.log
           /\ last' = [op |-> "main", args |-> <<>>, out |-> e.out]
           /\ status' = IF e.out.exc = "none" THEN "running" ELSE "aborted"
           /\ at' = IF e.out.exc = "none" THEN [at EXCEPT !.line = "machines"] ELSE at
    /\ UNCHANGED <<cvars, docker_target, succeeded, argv, made,
                   machine_targets, mpi_targets, calls>>

\* for machine in machine_targets: the next machine is "generic"
MainEnterGeneric ==
    /\ status = "running"
    /\ at.line = "machines"
    /\ at.machine <= Len(machine_targets)
    /\ machine_targets[at.machine] = generic
    /\ at' = [at EXCEPT !.line = "mpis", !.mpi = 1]
    /\ Moved

\* for mpi in mpi_targets: the body for the next variant
MainGenericTarget ==
    /\ status = "running"
    /\ at.line = "mpis"
    /\ at.mpi <= Len(mpi_targets)
    /\ LET machine == PyStr(machine_targets[at.machine])
           mpi == PyStr(mpi_targets[at.mpi])
       IN  Invoked(machine,
                   main_build(argv.image, machine, mpi, mpi, argv.git_branch,
                              argv.execute, World(fs, log)),
                   [at EXCEPT !.mpi = at.mpi + 1])

\* the variant list is exhausted
MainLeaveGeneric ==
    /\ status = "running"
    /\ at.line = "mpis"
    /\ at.mpi > Len(mpi_targets)
    /\ at' = [at EXCEPT !.line = "machines", !.machine = at.machine + 1]
    /\ Moved

\* the next machine is a specific machine
MainSpecificTarget_once_per_variant ==
    /\ status = "running"
    /\ at.line = "machines"
    /\ at.machine <= Len(machine_targets)
    /\ machine_targets[at.machine] # generic
    /\ IF mpi_targets = <<>>
       THEN at' = [at EXCEPT !.machine = at.machine + 1] /\ Moved
       ELSE LET machine == PyStr(machine_targets[at.machine])
            IN  Invoked(machine,
                        main_build(argv.image, machine, PyNone, machine, argv.git_branch,
                                   argv.execute, World(fs, log)),
                        [at EXCEPT !.machine = at.machine + 1])

MainSpecificTarget ==
    /\ status = "running"
    /\ at.line = "machines"
    /\ at.machine <= Len(machine_targets)
    /\ machine_targets[at.machine] # generic
    /\ LET machine == PyStr(machine_targets[at.machine])
       IN  Invoked(machine,
                   main_build(argv.image, machine, PyNone, machine, argv.git_branch,
                              argv.execute, World(fs, log)),
                   [at EXCEPT !.machine = at.machine + 1])

\* the machine list is exhausted: main returns
MainReturn ==
    /\ status = "running"
    /\ at.line = "machines"
    /\ at.machine > Len(machine_targets)
    /\ at' = [at EXCEPT !.line = "returned"]
    /\ status' = "done"
    /\ UNCHANGED <<cvars, dvars, argv, made, machine_targets, mpi_targets, calls>>

MainNext ==
    \/ MainSelect
    \/ MainEnterGeneric
    \/ MainGenericTarget
    \/ MainLeaveGeneric
    \/ MainSpecificTarget
    \/ MainReturn

MainSpec == MainInit /\ [][MainNext]_vars

\* the builder main calls for the product kind
BuilderOf(image) == IF image = yandabase THEN "make_yandabase" ELSE "make_yandasoft"

\* what identifies an invocation: the builder and the machine, and for the
\* machine "generic" the variant too
Invocation(c) ==
    IF c.machine = PyStr(generic) THEN <<c.op, c.machine, c.mpi>> ELSE <<c.op, c.machine>>

\* the invocations the selection asks for, from the k-th machine on: one per
\* entry of the variant list, in list order, for "generic", and one for any
\* other machine
RECURSIVE SelectionFrom(_)
SelectionFrom(k) ==
    IF k > Len(machine_targets) THEN <<>>
    ELSE (IF machine_targets[k] = generic
          THEN [j \in 1..Len(mpi_targets) |->
                   <<BuilderOf(argv.image), PyStr(generic), PyStr(mpi_targets[j])>>]
          ELSE <<<<BuilderOf(argv.image), PyStr(machine_targets[k])>>>>)
         \o SelectionFrom(k + 1)

InvocationsMade == [k \in 1..Len(calls) |-> Invocation(calls[k])]

UnrecognizedKind == argv.image \notin {yandabase, yandasoft, askapsoft}

\* C11: main invokes the builder of the product kind over the selection:
\* once per entry of the variant list, in list order, for the machine
\* "generic", and once, whatever the variant list holds, for any other
\* machine; the invocations made are always the first ones of that sequence,
\* all of it when main returns, and fewer only when the last one raised and
\* ended the process. An unrecognized product kind raises before any builder
\* is invoked, any line is printed or any file is written.
C11_BuilderOncePerSelectedTarget ==
    /\ Len(calls) <= Len(SelectionFrom(1))
    /\ InvocationsMade = SubSeq(SelectionFrom(1), 1, Len(calls))
    /\ status = "done" => Len(calls) = Len(SelectionFrom(1))
    /\ (status = "aborted" /\ ~UnrecognizedKind)
           => calls # <<>> /\ last.op = calls[Len(calls)].op /\ last.out.exc # "none"
    /\ UnrecognizedKind =>
           /\ calls = <<>>
           /\ fs = NoFiles
           /\ log = <<>>
           /\ at.line = "select"
           /\ status = "aborted" => last.op = "main" /\ last.out.exc = "ValueError"

C11_Witness ==
    /\ status = "done"
    /\ argv.image = yandasoft
    /\ machine_targets = <<galaxy, generic>>
    /\ mpi_targets = <<openmpi4, mpich>>
    /\ InvocationsMade =
           << <<"make_yandasoft", PyStr(galaxy)>>,
              <<"make_yandasoft", PyStr(generic), PyStr(openmpi4)>>,
              <<"make_yandasoft", PyStr(generic), PyStr(mpich)>> >>

\* ------------------------------------------------------------------------
\* Claims on the recipes and on the build

\* the literals of the script that open a FROM line of a recipe
FoundationLiterals ==
    {"FROM csirocass/base:", "FROM pawsey/mpich-base:3.1.4_ubuntu18.04 AS ", "FROM "}

\* where the FROM lines of a text start
FromAt(text) == {k \in 1..Len(text) : text[k] \in FoundationLiterals}

\* the text has one FROM line, of the image csirocass/base:v
FoundedOnBase(text, v) ==
    \E k \in 1..Len(text) :
        /\ FromAt(text) = {k}
        /\ text[k] = "FROM csirocass/base:"
        /\ Len(text) > k + Len(v)
        /\ SubSeq(text, k + 1, k + Len(v)) = v
        /\ text[k + Len(v) + 1] = " AS base_image \n"

\* the text has one FROM line, of the pawsey image of galaxy
FoundedOnPawsey(text) ==
    \E k \in 1..Len(text) :
        /\ FromAt(text) = {k}
        /\ text[k] = "FROM pawsey/mpich-base:3.1.4_ubuntu18.04 AS "
        /\ Len(text) > k
        /\ text[k + 1] = "base_image\n"

YandabaseFile(target) ==
    <<".", "g", "i", "t", "l", "a", "b", "-", "d", "o", "c", "k", "e", "r", "-">>
        \o yandabase \o <<"-">> \o target

YandabaseImage(target) == docker_account \o <<"/">> \o yandabase \o <<":">> \o target

\* C12: make_yandabase keys the target on the variant for the machine
\* "generic" and on the machine for "galaxy". For generic with variant v the
\* written recipe has the one foundation image csirocass/base:v and none of
\* pawsey, the file is .gitlab-docker-yandabase-v and the image is
\* csirocass/yandabase:v; for galaxy the recipe has the one foundation image
\* of pawsey and none of csirocass/base, and both names have "galaxy" in the
\* place of the variant, whatever variant was passed; any other machine
\* raises ValueError.
C12_YandabaseKeyedOnTarget ==
    last.op = "make_yandabase" =>
        /\ UnknownMachine(last.args) => last.out.exc = "ValueError"
        /\ last.out.exc = "none" =>
               /\ ~UnknownMachine(last.args)
               /\ docker_target.recipe_name \in DOMAIN fs
               /\ last.args.machine = PyStr(generic) =>
                      /\ last.args.mpi.t = "str"
                      /\ docker_target.recipe_name = YandabaseFile(last.args.mpi.v)
                      /\ docker_target.image_name = YandabaseImage(last.args.mpi.v)
                      /\ FoundedOnBase(fs[docker_target.recipe_name], last.args.mpi.v)
                      /\ ~FoundedOnPawsey(fs[docker_target.recipe_name])
               /\ last.args.machine = PyStr(galaxy) =>
                      /\ docker_target.recipe_name = YandabaseFile(galaxy)
                      /\ docker_target.image_name = YandabaseImage(galaxy)
                      /\ FoundedOnPawsey(fs[docker_target.recipe_name])
                      /\ \A k \in 1..Len(fs[docker_target.recipe_name]) :
                             fs[docker_target.recipe_name][k] # "FROM csirocass/base:"

C12_Witness ==
    /\ last.op = "make_yandabase"
    /\ last.out.exc = "none"
    /\ last.args.machine = PyStr(galaxy)
    /\ last.args.mpi = PyStr(mpich)
    /\ YandabaseFile(galaxy) \in DOMAIN fs
    /\ YandabaseFile(mpich) \in DOMAIN fs
    /\ FoundedOnBase(fs[YandabaseFile(mpich)], mpich)
    /\ FoundedOnPawsey(fs[YandabaseFile(galaxy)])

\* how many pieces of the text are the piece p
CountOf(text, p) == Cardinality({k \in 1..Len(text) : text[k] = p})

\* the step "RUN ./git-do checkout -b r" and the one of release/r
Checkout(r) == <<"RUN ./git-do checkout -b ">> \o r \o <<"\n">>

ReleaseCheckout(r) == <<"RUN ./git-do checkout -b release/">> \o r \o <<"\n">>

\* the recipe of the branch develop for the same base image and flavor, cut
\* at its checkout step
DevelopRecipe == make_big_yandasoft_recipe(arg.base_image, arg.image, develop).val.v

DevelopCheckoutAt ==
    CHOOSE k \in 1..Len(DevelopRecipe) : DevelopRecipe[k] = "RUN ./git-do checkout -b "

StepsBeforeCheckout == SubSeq(DevelopRecipe, 1, DevelopCheckoutAt - 1)

StepsAfterCheckout ==
    SubSeq(DevelopRecipe, DevelopCheckoutAt + Len(Checkout(develop)), Len(DevelopRecipe))

\* C13: make_big_yandasoft_recipe raises ValueError for a flavor other than
\* yandasoft and askapsoft. For the revisions "develop" and "master" its
\* recipe has exactly one git-do checkout step, of the revision, and no
\* checkout of release/. For any other revision r the recipe is the same
\* sequence with the checkout of r in the place of the checkout of the
\* branch and with exactly one more step, the checkout of release/r (under
\* its comment line), immediately before the checkout of r.
C13_ReleaseWorkaroundOnlyOffBranch ==
    pc = "recipe" =>
        /\ arg.image \notin {yandasoft, askapsoft} => ret = Raised("ValueError")
        /\ arg.image \in {yandasoft, askapsoft} =>
               /\ ret.exc = "none"
               /\ CountOf(DevelopRecipe, "RUN ./git-do checkout -b ") = 1
               /\ DevelopRecipe =
                      StepsBeforeCheckout \o Checkout(develop) \o StepsAfterCheckout
               /\ arg.git_branch \in {develop, master} =>
                      /\ ret.val.v = StepsBeforeCheckout \o Checkout(arg.git_branch)
                                         \o StepsAfterCheckout
                      /\ CountOf(ret.val.v, "RUN ./git-do checkout -b ") = 1
                      /\ CountOf(ret.val.v, "RUN ./git-do checkout -b release/") = 0
               /\ arg.git_branch \notin {develop, master} =>
                      /\ ret.val.v = StepsBeforeCheckout
                                         \o <<"# Workaround for versioning\n">>
                                         \o ReleaseCheckout(arg.git_branch)
                                         \o Checkout(arg.git_branch)
                                         \o StepsAfterCheckout
                      /\ CountOf(ret.val.v, "RUN ./git-do checkout -b ") = 1
                      /\ CountOf(ret.val.v, "RUN ./git-do checkout -b release/") = 1

C13_Witness ==
    /\ pc = "recipe"
    /\ arg.image = askapsoft
    /\ arg.git_branch = <<"1", ".", "2", ".", "3">>
    /\ ret.exc = "none"
    /\ \E k \in 1..Len(ret.val.v) :
           /\ ret.val.v[k] = "RUN ./git-do checkout -b release/"
           /\ SubSeq(ret.val.v, k + 1, k + 5) = arg.git_branch
           /\ ret.val.v[k + 6] = "\n"
           /\ ret.val.v[k + 7] = "RUN ./git-do checkout -b "

\* C14: when both names of the record are set, get_build_command returns
\* exactly "docker build --no-cache --pull -t <image-name> -f <recipe-name> ."
\* with the image name and the recipe file name the record holds at the
\* call, and the call changes no field of the record (nor any file, nor the
\* I/O log).
C14_BuildCommandExactAndPure ==
    [][(/\ last'.op = "get_build_command"
        /\ docker_target.recipe_name # <<>>
        /\ docker_target.image_name # <<>>)
           => /\ last'.out =
                     Returned(PyStr(<<"docker build --no-cache --pull -t ">>
                                        \o docker_target.image_name
                                        \o <<" -f ">>
                                        \o docker_target.recipe_name
                                        \o <<" .">>))
              /\ docker_target' = docker_target
              /\ fs' = fs
              /\ log' = log
      ]_vars

C14_Witness ==
    /\ last.op = "get_build_command"
    /\ docker_target.recipe_name = <<"a">>
    /\ docker_target.image_name = <<"b">>
    /\ docker_target.recipe = <<"FROM y\n">>
    /\ last.out = Returned(PyStr(<<"docker build --no-cache --pull -t ", "b", " -f ", "a", " .">>))

\* the command is the build command of the recipe file: it ends with
\* " -f ", the file's name and " ."
BuildsFrom(command, recipe_name) ==
    /\ IsBuildCommand(command)
    /\ Len(command) >= Len(recipe_name) + 3
    /\ command[Len(command)] = " ."
    /\ SubSeq(command, Len(command) - Len(recipe_name), Len(command) - 1) = recipe_name
    /\ command[Len(command) - Len(recipe_name) - 1] = " -f "

\* the I/O events a step adds to the log
EventsOfStep == SubSeq(log', Len(log) + 1, Len(log'))

WritesOfStep == {i \in 1..Len(EventsOfStep) : EventsOfStep[i].ev = "write"}

RunsOfStep == {i \in 1..Len(EventsOfStep) : EventsOfStep[i].ev = "run"}

PrintsOfStep == {i \in 1..Len(EventsOfStep) : EventsOfStep[i].ev = "print"}

\* every build of the step is started with the flag set, after the step's
\* write of the recipe file it builds from, and that file exists
BuildsAfterWrite ==
    \A i \in RunsOfStep :
        /\ argv.execute
        /\ \E j \in WritesOfStep :
               /\ j < i
               /\ BuildsFrom(EventsOfStep[i].what, EventsOfStep[j].what)
               /\ EventsOfStep[j].what \in DOMAIN fs'

\* a run of a builder: at most one write; a run that returns wrote the
\* recipe file once and then built from it (flag set) or printed the command
\* (flag unset); without the flag nothing is started
BuilderRunInOrder ==
    /\ SubSeq(log', 1, Len(log)) = log
    /\ Cardinality(WritesOfStep) <= 1
    /\ BuildsAfterWrite
    /\ ~argv.execute => RunsOfStep = {}
    /\ last'.out.exc = "none" =>
           /\ WritesOfStep = {1}
           /\ EventsOfStep[1].what = docker_target'.recipe_name
           /\ IF argv.execute
              THEN RunsOfStep = {2} /\ PrintsOfStep = {}
              ELSE PrintsOfStep = {2}
                       /\ BuildsFrom(EventsOfStep[2].what, docker_target'.recipe_name)
    /\ last'.out.exc # "none" => EventsOfStep = <<>>

\* C15 (as stated): in every run of make_yandabase and make_yandasoft the
\* recipe file is written once, before any build for the target; the build
\* subprocess is started only with the execute flag set and the recipe file
\* present; without the flag nothing is started and the command is only
\* printed; build_image on a record whose recipe file is absent raises the
\* file-existence error without starting a subprocess.
C15_BuildOnRequestAbsentFileError ==
    [][/\ last'.op \in {"make_yandabase", "make_yandasoft"} => BuilderRunInOrder
       /\ (last'.op = "build_image"
               /\ last'.args.record.recipe_name # <<>>
               /\ ~is_file(World(fs, log), last'.args.record.recipe_name))
              => /\ last'.out.exc = "FileExistsError"
                 /\ log' = log
      ]_vars

\* C15 (amended): as stated for the builders (a run that raises writes and
\* starts nothing); build_image on a record whose recipe file is absent
\* starts no subprocess and raises: the file-existence error when both
\* names of the record are set, and a value error, before the file is
\* looked at, when the recipe name or the image name is not set.
C15_BuildOnRequestAbsentFileRaises ==
    [][/\ last'.op \in {"make_yandabase", "make_yandasoft"} => BuilderRunInOrder
       /\ (last'.op = "build_image"
               /\ ~is_file(World(fs, log), last'.args.record.recipe_name))
              => /\ last'.out.exc =
                        IF /\ last'.args.record.recipe_name # <<>>
                           /\ last'.args.record.image_name # <<>>
                        THEN "FileExistsError"
                        ELSE "ValueError"
                 /\ log' = log
                 /\ fs' = fs
      ]_vars

C15_Witness ==
    /\ last.op = "build_image"
    /\ last.args.record.recipe_name # <<>>
    /\ last.args.record.image_name # <<>>
    /\ last.out.exc = "FileExistsError"
    /\ argv.execute
    /\ Len(log) = 2
    /\ log[1].ev = "write"
    /\ log[2].ev = "run"
    /\ BuildsFrom(log[2].what, log[1].what)

====
